---- MODULE Spec2Model ----
(***************************************************************************)
(* Model of the layered variant of the retail application: the SQLite      *)
(* store (database.py), the inventory ledger (inventory_manager.py), the   *)
(* stock-in log (stock_log_manager.py), the POS cart and sale committer    *)
(* (pos_manager.py) and the credit ledger (credit_sales_manager.py).       *)
(*                                                                         *)
(* Amounts (REAL columns, Python floats) are modelled as integers: the     *)
(* model says nothing about binary floating point rounding.                *)
(***************************************************************************)
EXTENDS Integers, Sequences, FiniteSets, TLC

(***************************************************************************)
(* Bounds of the model.                                                    *)
(***************************************************************************)
MaxStock == 3        \* largest stock a product edit or a stock-in may reach
MaxQty == 2          \* largest quantity passed to a cart operation
MaxPrice == 2        \* selling prices range over 1..MaxPrice
MaxAdj == 1          \* charges and discounts range over -1..MaxAdj
MaxCalls == 4        \* manager calls in one behaviour
MaxAmount == 2       \* credit amounts and payments range over -1..MaxAmount

(***************************************************************************)
(* Program constants.                                                      *)
(***************************************************************************)
reorder_default_level == 4
\* Positional arguments CreditSalesManager.add_credit_sale accepts besides
\* self (sale_id, customer_name, original_amount, due_date) ...
add_credit_sale_max_args == 4
\* ... and the number POSManager.process_sale passes to it
\* (sale_id, customer_name, grand_total, grand_total, 'Unpaid').
process_sale_credit_args == 5

Sessions == {1, 2}
ItemNos == {"A", "B", "Z"}          \* "Z" is never a row of products
Prices == 1..MaxPrice
Quantities == -1..MaxQty
Adjustments == -1..MaxAdj
TotalInputs == -1..(MaxAdj + 1)     \* charges and discounts asked totals for
PaymentTypes == {"Cash", "Credit"}
Customers == {"", "Ana"}
Amounts == -1..MaxAmount
SaleIds == 1..(MaxCalls \div 2)     \* a sale takes two calls: add, commit
CreditIds == 1..MaxCalls            \* every row there can be, and unknown ids

NoProduct == [item_no |-> "none"]   \* Python None from a point lookup

VARIABLES
    db,      \* the SQLite file: committed contents of the tables
    cart,    \* cart[s]: POSManager.cart of session s, in insertion order
    ret,     \* return value of the latest manager call
    pc,      \* pc[s]: position of session s inside process_sale
    local,   \* local[s]: locals of the process_sale call of session s
    txn,     \* uncommitted contents seen by the connection holding the lock
    lock,    \* session whose connection holds the write lock, 0 if none
    calls    \* number of manager calls made so far

vars == <<db, cart, ret, pc, local, txn, lock, calls>>

(***************************************************************************)
(* database.py                                                             *)
(***************************************************************************)
\* DatabaseManager.get_product_by_item_no: SELECT * FROM products WHERE ...
GetProduct(d, item_no) ==
    IF item_no \in DOMAIN d.products THEN d.products[item_no] ELSE NoProduct

\* Mutant of the id assignment: every sale gets the first id.
NextSaleId_AlwaysFirst(d) == 1

\* sale_id INTEGER PRIMARY KEY AUTOINCREMENT; rows of sales are never deleted.
NextSaleId(d) == Len(d.sales) + 1

\* credit_id INTEGER PRIMARY KEY AUTOINCREMENT.
NextCreditId(d) == Len(d.credit_sales) + 1

\* UPDATE products SET current_stock = current_stock + ? WHERE item_no = ?
\* (an UPDATE that matches no row changes nothing and raises nothing).
SetStock(d, item_no, quantity_change) ==
    IF item_no \in DOMAIN d.products
    THEN [d EXCEPT !.products[item_no].current_stock = @ + quantity_change]
    ELSE d

\* DatabaseManager.update_product_stock on a connection of its own: with the
\* write lock held by another connection the UPDATE raises "database is
\* locked", which is caught and reported as False.
UpdateProductStock(d, item_no, quantity_change, locked) ==
    IF locked
    THEN [ok |-> FALSE, db |-> d]
    ELSE [ok |-> TRUE, db |-> SetStock(d, item_no, quantity_change)]

(***************************************************************************)
(* inventory_manager.py                                                    *)
(***************************************************************************)
ReorderAlert(current_stock) ==
    IF current_stock < reorder_default_level THEN 1 ELSE 0

\* InventoryManager.update_stock
UpdateStock(d, item_no, quantity_change, locked) ==
    LET u == UpdateProductStock(d, item_no, quantity_change, locked)
        p == GetProduct(u.db, item_no)
    IN  IF ~u.ok THEN [ok |-> FALSE, db |-> d]
        ELSE IF p = NoProduct THEN [ok |-> TRUE, db |-> u.db]
        ELSE IF ReorderAlert(p.current_stock) # p.reorder_alert
        THEN [ok |-> TRUE,
              db |-> [u.db EXCEPT !.products[item_no].reorder_alert =
                                      ReorderAlert(p.current_stock)]]
        ELSE [ok |-> TRUE, db |-> u.db]

(***************************************************************************)
(* pos_manager.py: the cart                                                *)
(***************************************************************************)
\* Position of item_no in the cart dictionary, 0 if absent.
CartIndex(c, item_no) ==
    IF \E k \in 1..Len(c) : c[k].item_no = item_no
    THEN CHOOSE k \in 1..Len(c) : c[k].item_no = item_no
    ELSE 0

\* self.cart.get(item_no, {}).get('quantity', 0)
CartQuantity(c, item_no) ==
    IF CartIndex(c, item_no) = 0 THEN 0 ELSE c[CartIndex(c, item_no)].quantity

\* del self.cart[item_no]
CartWithout(c, item_no) ==
    SelectSeq(c, LAMBDA l : l.item_no # item_no)

\* Mutant of add_item_to_cart: the quantity already in the cart is not
\* counted against the stock.
AddItemToCart_IgnoresCartQuantity(c, d, item_no, quantity) ==
    LET product == GetProduct(d, item_no)
        k == CartIndex(c, item_no)
    IN  IF product = NoProduct
        THEN [ok |-> FALSE, why |-> "NotFound", cart |-> c]
        ELSE IF quantity <= 0
        THEN [ok |-> FALSE, why |-> "InvalidQuantity", cart |-> c]
        ELSE IF quantity > product.current_stock
        THEN [ok |-> FALSE, why |-> "InsufficientStock", cart |-> c]
        ELSE IF k # 0
        THEN [ok |-> TRUE, why |-> "Added",
              cart |-> [c EXCEPT ![k].quantity = @ + quantity,
                                 ![k].subtotal = (c[k].quantity + quantity)
                                                 * product.selling_price]]
        ELSE [ok |-> TRUE, why |-> "Added",
              cart |-> Append(c, [item_no |-> item_no,
                                  product_data |->
                                      [selling_price |-> product.selling_price,
                                       supplier_price |-> product.supplier_price],
                                  quantity |-> quantity,
                                  subtotal |-> quantity * product.selling_price])]

\* POSManager.add_item_to_cart: [ok, why, cart]
AddItemToCart(c, d, item_no, quantity) ==
    LET product == GetProduct(d, item_no)
        k == CartIndex(c, item_no)
    IN  IF product = NoProduct
        THEN [ok |-> FALSE, why |-> "NotFound", cart |-> c]
        ELSE IF quantity <= 0
        THEN [ok |-> FALSE, why |-> "InvalidQuantity", cart |-> c]
        ELSE IF CartQuantity(c, item_no) + quantity > product.current_stock
        THEN [ok |-> FALSE, why |-> "InsufficientStock", cart |-> c]
        ELSE IF k # 0
        THEN [ok |-> TRUE, why |-> "Added",
              cart |-> [c EXCEPT ![k].quantity = @ + quantity,
                                 ![k].subtotal = (c[k].quantity + quantity)
                                                 * product.selling_price]]
        ELSE [ok |-> TRUE, why |-> "Added",
              cart |-> Append(c, [item_no |-> item_no,
                                  product_data |->
                                      [selling_price |-> product.selling_price,
                                       supplier_price |-> product.supplier_price],
                                  quantity |-> quantity,
                                  subtotal |-> quantity * product.selling_price])]

\* POSManager.remove_item_from_cart: [ok, why, cart]
RemoveItemFromCart(c, item_no) ==
    IF CartIndex(c, item_no) # 0
    THEN [ok |-> TRUE, why |-> "Removed", cart |-> CartWithout(c, item_no)]
    ELSE [ok |-> FALSE, why |-> "NotInCart", cart |-> c]

\* Mutant of update_cart_item_quantity: the stock is not looked at.
UpdateCartItemQuantity_NoStockCheck(c, d, item_no, new_quantity) ==
    LET product == GetProduct(d, item_no)
        k == CartIndex(c, item_no)
    IN  IF k = 0
        THEN [ok |-> FALSE, why |-> "NotInCart", cart |-> c]
        ELSE IF product = NoProduct
        THEN [ok |-> FALSE, why |-> "NotFound", cart |-> c]
        ELSE IF new_quantity < 0
        THEN [ok |-> FALSE, why |-> "InvalidQuantity", cart |-> c]
        ELSE IF new_quantity = 0
        THEN [ok |-> RemoveItemFromCart(c, item_no).ok, why |-> "Removed",
              cart |-> RemoveItemFromCart(c, item_no).cart]
        ELSE [ok |-> TRUE, why |-> "Updated",
              cart |-> [c EXCEPT ![k].quantity = new_quantity,
                                 ![k].subtotal = new_quantity
                                                 * product.selling_price]]

\* POSManager.update_cart_item_quantity: [ok, why, cart]
UpdateCartItemQuantity(c, d, item_no, new_quantity) ==
    LET product == GetProduct(d, item_no)
        k == CartIndex(c, item_no)
    IN  IF k = 0
        THEN [ok |-> FALSE, why |-> "NotInCart", cart |-> c]
        ELSE IF product = NoProduct
        THEN [ok |-> FALSE, why |-> "NotFound", cart |-> c]
        ELSE IF new_quantity < 0
        THEN [ok |-> FALSE, why |-> "InvalidQuantity", cart |-> c]
        ELSE IF new_quantity > product.current_stock
        THEN [ok |-> FALSE, why |-> "InsufficientStock", cart |-> c]
        ELSE IF new_quantity = 0
        THEN [ok |-> RemoveItemFromCart(c, item_no).ok, why |-> "Removed",
              cart |-> RemoveItemFromCart(c, item_no).cart]
        ELSE [ok |-> TRUE, why |-> "Updated",
              cart |-> [c EXCEPT ![k].quantity = new_quantity,
                                 ![k].subtotal = new_quantity
                                                 * product.selling_price]]

RECURSIVE SumSubtotals(_)
SumSubtotals(c) ==
    IF c = <<>> THEN 0 ELSE Head(c).subtotal + SumSubtotals(Tail(c))

\* Mutant of calculate_cart_total: the final total is not floored at 0.
CalculateCartTotal_NoFloor(c, additional_charges, discount_amount) ==
    LET subtotal == SumSubtotals(c)
        discount == IF discount_amount < 0 THEN 0 ELSE discount_amount
        charges == IF additional_charges < 0 THEN 0 ELSE additional_charges
    IN  [subtotal |-> subtotal,
         discount |-> discount,
         charges |-> charges,
         grand_total |-> subtotal + charges - discount]

\* POSManager.calculate_cart_total
CalculateCartTotal(c, additional_charges, discount_amount) ==
    LET subtotal == SumSubtotals(c)
        discount == IF discount_amount < 0 THEN 0 ELSE discount_amount
        charges == IF additional_charges < 0 THEN 0 ELSE additional_charges
        gross_total == subtotal + charges
        final_total == gross_total - discount
    IN  [subtotal |-> subtotal,
         discount |-> discount,
         charges |-> charges,
         grand_total |-> IF final_total < 0 THEN 0 ELSE final_total]

(***************************************************************************)
(* pos_manager.py: process_sale                                            *)
(***************************************************************************)
\* Mutants of the re-validation loop: one unit too lenient; first line only;
\* lines of products that are gone are let through.
ValidationFails_OffByOne(c, d) ==
    \E k \in 1..Len(c) :
        \/ GetProduct(d, c[k].item_no) = NoProduct
        \/ GetProduct(d, c[k].item_no).current_stock + 1 < c[k].quantity

ValidationFails_FirstLineOnly(c, d) ==
    /\ c # <<>>
    /\ \/ GetProduct(d, c[1].item_no) = NoProduct
       \/ GetProduct(d, c[1].item_no).current_stock < c[1].quantity

\* The stock re-validation loop: some cart line's product is gone or its
\* persisted stock is lower than the line's quantity.
ValidationFails_StockOnly(c, d) ==
    \E k \in 1..Len(c) :
        LET current_product_info == GetProduct(d, c[k].item_no)
        IN  /\ current_product_info # NoProduct
            /\ current_product_info.current_stock < c[k].quantity

ValidationFails(c, d) ==
    \E k \in 1..Len(c) :
        LET current_product_info == GetProduct(d, c[k].item_no)
        IN  \/ current_product_info = NoProduct
            \/ current_product_info.current_stock < c[k].quantity

\* sale_items_data: one entry per cart line, prices from the line's
\* product_data (the product as it was when the line was created).
SaleItemsData(c) ==
    [k \in 1..Len(c) |->
        [item_no |-> c[k].item_no,
         quantity_sold |-> c[k].quantity,
         selling_price_at_sale |-> c[k].product_data.selling_price,
         supplier_price_at_sale |-> c[k].product_data.supplier_price]]

\* INSERT INTO sales (...)
InsertSaleRow(t, sale_data) ==
    [t EXCEPT !.sales = Append(@, [sale_id |-> NextSaleId(t),
                                   total_amount |-> sale_data.total_amount,
                                   payment_type |-> sale_data.payment_type,
                                   customer_name |-> sale_data.customer_name])]

\* INSERT INTO sale_items (...)
InsertSaleItem(t, sale_id, item) ==
    [t EXCEPT !.sale_items = Append(@, [sale_id |-> sale_id,
                                        item_no |-> item.item_no,
                                        quantity_sold |-> item.quantity_sold,
                                        selling_price_at_sale |->
                                            item.selling_price_at_sale,
                                        supplier_price_at_sale |->
                                            item.supplier_price_at_sale])]

\* Mutant of the stock decrement: one unit whatever the quantity sold.
DecrementStock_OneUnit(t, item) == SetStock(t, item.item_no, 0 - 1)

\* UPDATE products SET current_stock = current_stock - ? WHERE item_no = ?
DecrementStock(t, item) == SetStock(t, item.item_no, 0 - item.quantity_sold)

\* Statements the transaction executes on its cursor: the sale row, then for
\* every item its line item and its stock decrement.
NumStatements(items) == 1 + 2 * Len(items)

\* The n-th statement of the transaction (n >= 1) applied to the working
\* contents t; sale_id is cursor.lastrowid of the first statement.
ExecStatement(t, sale_data, sale_id, items, n) ==
    IF n = 1 THEN InsertSaleRow(t, sale_data)
    ELSE IF n % 2 = 0 THEN InsertSaleItem(t, sale_id, items[n \div 2])
    ELSE DecrementStock(t, items[n \div 2])

\* Working contents of the connection after its first n statements.
RECURSIVE TxnAfter(_, _, _, _)
TxnAfter(d, sale_data, items, n) ==
    IF n = 0 THEN d
    ELSE ExecStatement(TxnAfter(d, sale_data, items, n - 1),
                       sale_data, NextSaleId(d), items, n)

\* self.inventory_manager.update_stock(item_no, 0) after each of the first n
\* items, on connections of their own while the transaction holds the write
\* lock: what they leave in the committed contents d.
RECURSIVE AlertRefresh(_, _, _)
AlertRefresh(d, items, n) ==
    IF n = 0 THEN d
    ELSE UpdateStock(AlertRefresh(d, items, n - 1), items[n].item_no, 0, TRUE).db

\* Mutant of the rollback: the statements executed so far are kept.
Rollback_KeepsWrites(committed, working) == working

\* conn.rollback(): the committed contents stay, the working contents go.
Rollback(committed, working) == committed

\* conn.commit(): the working contents become the committed contents.
Commit(committed, working) == working

(***************************************************************************)
(* credit_sales_manager.py and the credit_sales table                      *)
(***************************************************************************)
\* DatabaseManager.add_credit_sale on a connection of its own: INSERT INTO
\* credit_sales (amount_paid takes its DEFAULT 0.0). No constraint of the
\* table looks at sale_id (foreign keys are not enforced by the connection).
DbAddCreditSale(d, sale_id, customer_name, original_amount, balance, status, locked) ==
    IF locked
    THEN [ok |-> FALSE, db |-> d]
    ELSE [ok |-> TRUE,
          db |-> [d EXCEPT !.credit_sales =
                      Append(@, [credit_id |-> NextCreditId(d),
                                 sale_id |-> sale_id,
                                 customer_name |-> customer_name,
                                 original_amount |-> original_amount,
                                 amount_paid |-> 0,
                                 balance |-> balance,
                                 status |-> status])]]

\* CreditSalesManager.add_credit_sale: [ok, why, db]
AddCreditSale(d, sale_id, customer_name, original_amount, locked) ==
    LET a == DbAddCreditSale(d, sale_id, customer_name, original_amount,
                             original_amount, "Unpaid", locked)
    IN  IF customer_name = "" \/ original_amount = 0
        THEN [ok |-> FALSE, why |-> "Required", db |-> d]
        ELSE IF original_amount <= 0
        THEN [ok |-> FALSE, why |-> "NotPositive", db |-> d]
        ELSE IF a.ok
        THEN [ok |-> TRUE, why |-> "Recorded", db |-> a.db]
        ELSE [ok |-> FALSE, why |-> "DatabaseError", db |-> a.db]

\* Mutant of the payment: the balance is not floored at 0.
PaymentUpdate_NoClamp(credit_sale, amount_paid) ==
    [credit_sale EXCEPT
        !.amount_paid = @ + amount_paid,
        !.balance = credit_sale.original_amount
                    - (credit_sale.amount_paid + amount_paid),
        !.status = IF credit_sale.original_amount
                      - (credit_sale.amount_paid + amount_paid) <= 0
                   THEN "Paid" ELSE "Partially Paid"]

\* Mutant of the payment: an exact payoff is not recognised as Paid.
PaymentUpdate_PaidOnlyWhenOverpaid(credit_sale, amount_paid) ==
    [credit_sale EXCEPT
        !.amount_paid = @ + amount_paid,
        !.balance = IF credit_sale.original_amount
                       - (credit_sale.amount_paid + amount_paid) < 0
                    THEN 0
                    ELSE credit_sale.original_amount
                         - (credit_sale.amount_paid + amount_paid),
        !.status = IF credit_sale.original_amount
                      - (credit_sale.amount_paid + amount_paid) < 0
                   THEN "Paid" ELSE "Partially Paid"]

\* Mutant of the payment: amount_paid is capped at original_amount.
PaymentUpdate_CapsAmountPaid(credit_sale, amount_paid) ==
    IF credit_sale.original_amount
       - (credit_sale.amount_paid + amount_paid) <= 0
    THEN [credit_sale EXCEPT !.amount_paid = credit_sale.original_amount,
                             !.balance = 0,
                             !.status = "Paid"]
    ELSE [credit_sale EXCEPT !.amount_paid = @ + amount_paid,
                             !.balance = credit_sale.original_amount
                                         - (credit_sale.amount_paid + amount_paid),
                             !.status = "Partially Paid"]

\* The status and balance record_credit_payment derives from the amounts.
\* Mutant of the payment arithmetic: the payment replaces amount_paid
\* instead of being added to it.
PaymentUpdate_ReplacesAmountPaid(credit_sale, amount_paid) ==
    LET new_amount_paid == amount_paid
        new_balance == credit_sale.original_amount - new_amount_paid
    IN  IF new_balance <= 0
        THEN [credit_sale EXCEPT !.amount_paid = new_amount_paid,
                                 !.balance = 0,
                                 !.status = "Paid"]
        ELSE IF new_amount_paid > 0
        THEN [credit_sale EXCEPT !.amount_paid = new_amount_paid,
                                 !.balance = new_balance,
                                 !.status = "Partially Paid"]
        ELSE [credit_sale EXCEPT !.amount_paid = new_amount_paid,
                                 !.balance = new_balance,
                                 !.status = "Unpaid"]

PaymentUpdate(credit_sale, amount_paid) ==
    LET new_amount_paid == credit_sale.amount_paid + amount_paid
        new_balance == credit_sale.original_amount - new_amount_paid
    IN  IF new_balance <= 0
        THEN [credit_sale EXCEPT !.amount_paid = new_amount_paid,
                                 !.balance = 0,
                                 !.status = "Paid"]
        ELSE IF new_amount_paid > 0
        THEN [credit_sale EXCEPT !.amount_paid = new_amount_paid,
                                 !.balance = new_balance,
                                 !.status = "Partially Paid"]
        ELSE [credit_sale EXCEPT !.amount_paid = new_amount_paid,
                                 !.balance = new_balance,
                                 !.status = "Unpaid"]

\* Mutant of record_credit_payment: a Paid entry still takes payments.
RecordCreditPayment_NoPaidCheck(d, credit_id, amount_paid) ==
    IF amount_paid <= 0
    THEN [ok |-> FALSE, why |-> "InvalidAmount", db |-> d]
    ELSE IF credit_id \notin 1..Len(d.credit_sales)
    THEN [ok |-> FALSE, why |-> "NotFound", db |-> d]
    ELSE [ok |-> TRUE, why |-> "PaymentRecorded",
          db |-> [d EXCEPT !.credit_sales[credit_id] =
                      PaymentUpdate(d.credit_sales[credit_id], amount_paid)]]

\* Mutant of record_credit_payment: the amount is not looked at.
RecordCreditPayment_NoAmountCheck(d, credit_id, amount_paid) ==
    IF credit_id \notin 1..Len(d.credit_sales)
    THEN [ok |-> FALSE, why |-> "NotFound", db |-> d]
    ELSE IF d.credit_sales[credit_id].status = "Paid"
    THEN [ok |-> FALSE, why |-> "AlreadyPaid", db |-> d]
    ELSE [ok |-> TRUE, why |-> "PaymentRecorded",
          db |-> [d EXCEPT !.credit_sales[credit_id] =
                      PaymentUpdate(d.credit_sales[credit_id], amount_paid)]]

\* CreditSalesManager.record_credit_payment: [ok, why, db]
RecordCreditPayment(d, credit_id, amount_paid) ==
    IF amount_paid <= 0
    THEN [ok |-> FALSE, why |-> "InvalidAmount", db |-> d]
    ELSE IF credit_id \notin 1..Len(d.credit_sales)
    THEN [ok |-> FALSE, why |-> "NotFound", db |-> d]
    ELSE IF d.credit_sales[credit_id].status = "Paid"
    THEN [ok |-> FALSE, why |-> "AlreadyPaid", db |-> d]
    ELSE [ok |-> TRUE, why |-> "PaymentRecorded",
          db |-> [d EXCEPT !.credit_sales[credit_id] =
                      PaymentUpdate(d.credit_sales[credit_id], amount_paid)]]

(***************************************************************************)
(* pos_manager.py: process_sale, the credit step and the call as a whole   *)
(***************************************************************************)
\* The call self.credit_sales_manager.add_credit_sale(sale_id, customer_name,
\* grand_total, grand_total, 'Unpaid') raises TypeError: too many arguments.
CreditCallRaises == process_sale_credit_args > add_credit_sale_max_args

\* Mutant of the credit step: the customer name is never looked at.
CreditHandling_NoNameCheck(payment_type, customer_name) == "Commit"

\* "3. Handle Credit Sales": what the step decides for the transaction.
\* add_credit_sale returns a (bool, message) tuple, which is always truthy,
\* so "if not credit_success" never rolls back.
CreditHandling(payment_type, customer_name) ==
    IF payment_type # "Credit" THEN "Commit"
    ELSE IF customer_name = "" THEN "CustomerNameRequired"
    ELSE IF CreditCallRaises THEN "Exception"
    ELSE "CreditThenCommit"

\* Mutant of the empty-cart check: the cart is never found empty.
CartIsEmpty_Never(c) == FALSE

\* "if not self.cart": the cart dictionary has no line.
CartIsEmpty(c) == c = <<>>

\* Mutant of the failure returns: the cart is emptied as on success.
Failure_ClearsCart(why, d, c) ==
    [ok |-> FALSE, why |-> why, sale_id |-> 0, db |-> d, cart |-> <<>>]

Failure(why, d, c) ==
    [ok |-> FALSE, why |-> why, sale_id |-> 0, db |-> d, cart |-> c]

\* POSManager.process_sale as one call without interleaving. fault = n > 0
\* makes the n-th statement of the transaction (NumStatements + 1: the
\* commit) raise sqlite3.Error. Result: [ok, why, sale_id, db, cart].
\* Mutant of process_sale: only a negative total is refused.
ProcessSale_NegativeTotalOnly(c, d, payment_type, customer_name, additional_charges, discount_amount, fault) ==
    LET totals == CalculateCartTotal(c, additional_charges, discount_amount)
        grand_total == totals.grand_total
        sale_data == [total_amount |-> grand_total,
                      payment_type |-> payment_type,
                      customer_name |-> customer_name]
        items == SaleItemsData(c)
        last == NumStatements(items)
        done == IF fault \in 1..last THEN fault - 1 ELSE last
        working == TxnAfter(d, sale_data, items, done)
        committed == AlertRefresh(d, items, done \div 2)
        step3 == CreditHandling(payment_type, customer_name)
        credited == AddCreditSale(committed, NextSaleId(d), customer_name,
                                  grand_total, TRUE).db
        final == IF step3 = "CreditThenCommit" THEN credited ELSE committed
    IN  IF CartIsEmpty(c) THEN Failure("EmptyCart", d, c)
        ELSE IF grand_total < 0 /\ payment_type # "Credit"
        THEN Failure("NonPositiveTotal", d, c)
        ELSE IF ValidationFails(c, d)
        THEN Failure("StockInsufficient", d, c)
        ELSE IF fault \in 1..last
        THEN Failure("Exception", Rollback(committed, working), c)
        ELSE IF step3 \in {"CustomerNameRequired", "Exception"}
        THEN Failure(step3, Rollback(committed, working), c)
        ELSE IF fault = last + 1
        THEN Failure("Exception", Rollback(final, working), c)
        ELSE [ok |-> TRUE, why |-> "Processed", sale_id |-> NextSaleId(d),
              db |-> Commit(final, working), cart |-> <<>>]

ProcessSale(c, d, payment_type, customer_name, additional_charges, discount_amount, fault) ==
    LET totals == CalculateCartTotal(c, additional_charges, discount_amount)
        grand_total == totals.grand_total
        sale_data == [total_amount |-> grand_total,
                      payment_type |-> payment_type,
                      customer_name |-> customer_name]
        items == SaleItemsData(c)
        last == NumStatements(items)
        done == IF fault \in 1..last THEN fault - 1 ELSE last
        working == TxnAfter(d, sale_data, items, done)
        committed == AlertRefresh(d, items, done \div 2)
        step3 == CreditHandling(payment_type, customer_name)
        credited == AddCreditSale(committed, NextSaleId(d), customer_name,
                                  grand_total, TRUE).db
        final == IF step3 = "CreditThenCommit" THEN credited ELSE committed
    IN  IF CartIsEmpty(c) THEN Failure("EmptyCart", d, c)
        ELSE IF grand_total <= 0 /\ payment_type # "Credit"
        THEN Failure("NonPositiveTotal", d, c)
        ELSE IF ValidationFails(c, d)
        THEN Failure("StockInsufficient", d, c)
        ELSE IF fault \in 1..last
        THEN Failure("Exception", Rollback(committed, working), c)
        ELSE IF step3 \in {"CustomerNameRequired", "Exception"}
        THEN Failure(step3, Rollback(committed, working), c)
        ELSE IF fault = last + 1
        THEN Failure("Exception", Rollback(final, working), c)
        ELSE [ok |-> TRUE, why |-> "Processed", sale_id |-> NextSaleId(d),
              db |-> Commit(final, working), cart |-> <<>>]

(***************************************************************************)
(* Initial state: the store after initialize_db and add_product of A and   *)
(* B, every session with an empty cart and outside process_sale.           *)
(***************************************************************************)
InitProduct ==
    [selling_price |-> 1, supplier_price |-> 1, current_stock |-> MaxStock,
     reorder_alert |-> ReorderAlert(MaxStock), is_active |-> 1]

InitDb ==
    [products |-> [i \in {"A", "B"} |-> InitProduct],
     sales |-> <<>>,
     sale_items |-> <<>>,
     credit_sales |-> <<>>,
     stock_in_log |-> <<>>]

\* What a call returned, with the arguments that say which call it was.
Returned(op, s, ok, why) ==
    [op |-> op, session |-> s, ok |-> ok, why |-> why, sale_id |-> 0,
     payment_type |-> "", customer_name |-> "", credit_id |-> 0,
     amount |-> 0,
     totals |-> [subtotal |-> 0, discount |-> 0, charges |-> 0,
                 grand_total |-> 0]]

NoLocal == [payment_type |-> "", customer_name |-> "", k |-> 0]

Init ==
    /\ db = InitDb
    /\ cart = [s \in Sessions |-> <<>>]
    /\ ret = Returned("none", 0, TRUE, "none")
    /\ pc = [s \in Sessions |-> "idle"]
    /\ local = [s \in Sessions |-> NoLocal]
    /\ txn = InitDb
    /\ lock = 0
    /\ calls = 0

\* A call is made: behaviours are cut after MaxCalls calls.
Call == calls < MaxCalls /\ calls' = calls + 1

(***************************************************************************)
(* Calls of one session, each running to completion.                       *)
(***************************************************************************)
\* Mutant of add_item_to_cart: the units put in the cart are reserved by
\* taking them off current_stock.
add_item_to_cart_ReservesStock(s, item_no, quantity) ==
    LET r == AddItemToCart(cart[s], db, item_no, quantity)
    IN  /\ pc[s] = "idle"
        /\ Call
        /\ cart' = [cart EXCEPT ![s] = r.cart]
        /\ ret' = Returned("add_item_to_cart", s, r.ok, r.why)
        /\ db' = IF r.ok /\ quantity > 0
                 THEN UpdateProductStock(db, item_no, -quantity, FALSE).db
                 ELSE db
        /\ UNCHANGED <<pc, local, txn, lock>>

add_item_to_cart(s, item_no, quantity) ==
    LET r == AddItemToCart(cart[s], db, item_no, quantity)
    IN  /\ pc[s] = "idle"
        /\ Call
        /\ cart' = [cart EXCEPT ![s] = r.cart]
        /\ ret' = Returned("add_item_to_cart", s, r.ok, r.why)
        /\ UNCHANGED <<db, pc, local, txn, lock>>

remove_item_from_cart(s, item_no) ==
    LET r == RemoveItemFromCart(cart[s], item_no)
    IN  /\ pc[s] = "idle"
        /\ Call
        /\ cart' = [cart EXCEPT ![s] = r.cart]
        /\ ret' = Returned("remove_item_from_cart", s, r.ok, r.why)
        /\ UNCHANGED <<db, pc, local, txn, lock>>

update_cart_item_quantity(s, item_no, new_quantity) ==
    LET r == UpdateCartItemQuantity(cart[s], db, item_no, new_quantity)
    IN  /\ pc[s] = "idle"
        /\ Call
        /\ cart' = [cart EXCEPT ![s] = r.cart]
        /\ ret' = Returned("update_cart_item_quantity", s, r.ok, r.why)
        /\ UNCHANGED <<db, pc, local, txn, lock>>

\* Mutant of clear_cart: the first line stays in the cart.
clear_cart_KeepsFirstLine(s) ==
    /\ pc[s] = "idle"
    /\ Call
    /\ cart' = [cart EXCEPT ![s] = IF cart[s] = <<>> THEN <<>>
                                  ELSE <<Head(cart[s])>>]
    /\ ret' = Returned("clear_cart", s, TRUE, "Cleared")
    /\ UNCHANGED <<db, pc, local, txn, lock>>

\* POSManager.clear_cart
clear_cart(s) ==
    /\ pc[s] = "idle"
    /\ Call
    /\ cart' = [cart EXCEPT ![s] = <<>>]
    /\ ret' = Returned("clear_cart", s, TRUE, "Cleared")
    /\ UNCHANGED <<db, pc, local, txn, lock>>

\* POSManager.calculate_cart_total: the dictionary of totals is returned and
\* the cart is only read.
calculate_cart_total(s, additional_charges, discount_amount) ==
    /\ pc[s] = "idle"
    /\ Call
    /\ ret' = [Returned("calculate_cart_total", s, TRUE, "Totals")
                  EXCEPT !.totals = CalculateCartTotal(cart[s],
                                                      additional_charges,
                                                      discount_amount)]
    /\ UNCHANGED <<db, cart, pc, local, txn, lock>>

process_sale(s, payment_type, customer_name, additional_charges, discount_amount, fault) ==
    LET r == ProcessSale(cart[s], db, payment_type, customer_name,
                         additional_charges, discount_amount, fault)
    IN  /\ pc[s] = "idle"
        /\ lock = 0
        /\ Call
        /\ db' = r.db
        /\ cart' = [cart EXCEPT ![s] = r.cart]
        /\ ret' = [Returned("process_sale", s, r.ok, r.why) EXCEPT
                      !.sale_id = r.sale_id,
                      !.payment_type = payment_type,
                      !.customer_name = customer_name]
        /\ UNCHANGED <<pc, local, txn, lock>>

(***************************************************************************)
(* Inventory edits and stock-in.                                           *)
(***************************************************************************)
\* InventoryManager.update_product with the item_no kept: the row's selling
\* price and stock are overwritten and reorder_alert recomputed.
\* Mutant of update_product: the line items already sold of the product are
\* repriced too.
UpdateProduct_RepricesSoldLines(d, item_no, selling_price, current_stock) ==
    IF item_no \in DOMAIN d.products
    THEN [d EXCEPT !.products[item_no].selling_price = selling_price,
                   !.products[item_no].current_stock = current_stock,
                   !.products[item_no].reorder_alert = ReorderAlert(current_stock),
                   !.sale_items = [k \in 1..Len(@) |->
                                      IF @[k].item_no = item_no
                                      THEN [@[k] EXCEPT !.selling_price_at_sale
                                                            = selling_price]
                                      ELSE @[k]]]
    ELSE d

UpdateProduct(d, item_no, selling_price, current_stock) ==
    IF item_no \in DOMAIN d.products
    THEN [d EXCEPT !.products[item_no].selling_price = selling_price,
                   !.products[item_no].current_stock = current_stock,
                   !.products[item_no].reorder_alert = ReorderAlert(current_stock)]
    ELSE d

update_product(item_no, selling_price, current_stock) ==
    /\ lock = 0
    /\ Call
    /\ db' = UpdateProduct(db, item_no, selling_price, current_stock)
    /\ ret' = Returned("update_product", 0, TRUE, "Updated")
    /\ UNCHANGED <<cart, pc, local, txn, lock>>

\* DatabaseManager.add_stock_in_log
AddStockInLog(d, item_no, quantity_added) ==
    [d EXCEPT !.stock_in_log = Append(@, [item_no |-> item_no,
                                          quantity_added |-> quantity_added])]

\* StockLogManager.log_stock_in: [ok, why, db]
\* Mutant of log_stock_in: the entry is logged before the product is looked
\* up.
LogStockIn_LogsBeforeLookup(d, item_no, quantity_added) ==
    LET logged == AddStockInLog(d, item_no, quantity_added)
        u == UpdateStock(logged, item_no, quantity_added, FALSE)
    IN  IF quantity_added <= 0
        THEN [ok |-> FALSE, why |-> "InvalidQuantity", db |-> d]
        ELSE IF GetProduct(d, item_no) = NoProduct
        THEN [ok |-> FALSE, why |-> "NotFound", db |-> logged]
        ELSE IF ~u.ok
        THEN [ok |-> FALSE, why |-> "StockUpdateFailed", db |-> u.db]
        ELSE [ok |-> TRUE, why |-> "StockIn", db |-> u.db]

LogStockIn(d, item_no, quantity_added) ==
    LET logged == AddStockInLog(d, item_no, quantity_added)
        u == UpdateStock(logged, item_no, quantity_added, FALSE)
    IN  IF quantity_added <= 0
        THEN [ok |-> FALSE, why |-> "InvalidQuantity", db |-> d]
        ELSE IF GetProduct(d, item_no) = NoProduct
        THEN [ok |-> FALSE, why |-> "NotFound", db |-> d]
        ELSE IF ~u.ok
        THEN [ok |-> FALSE, why |-> "StockUpdateFailed", db |-> u.db]
        ELSE [ok |-> TRUE, why |-> "StockIn", db |-> u.db]

log_stock_in(item_no, quantity_added) ==
    LET r == LogStockIn(db, item_no, quantity_added)
    IN  /\ lock = 0
        /\ Call
        /\ db' = r.db
        /\ ret' = Returned("log_stock_in", 0, r.ok, r.why)
        /\ UNCHANGED <<cart, pc, local, txn, lock>>

(***************************************************************************)
(* Calls of the credit ledger.                                             *)
(***************************************************************************)
add_credit_sale(sale_id, customer_name, original_amount) ==
    LET r == AddCreditSale(db, sale_id, customer_name, original_amount, FALSE)
    IN  /\ lock = 0
        /\ Call
        /\ db' = r.db
        /\ ret' = Returned("add_credit_sale", 0, r.ok, r.why)
        /\ UNCHANGED <<cart, pc, local, txn, lock>>

record_credit_payment(credit_id, amount_paid) ==
    LET r == RecordCreditPayment(db, credit_id, amount_paid)
    IN  /\ lock = 0
        /\ Call
        /\ db' = r.db
        /\ ret' = [Returned("record_credit_payment", 0, r.ok, r.why) EXCEPT
                      !.credit_id = credit_id,
                      !.amount = amount_paid]
        /\ UNCHANGED <<cart, pc, local, txn, lock>>

\* Statement of the transaction that raises, 0 for none: the sale row, two
\* statements per cart line, the commit.
Faults == 0..(2 + 2 * Cardinality({"A", "B"}))

Next ==
    \/ \E i \in ItemNos, q \in Quantities : add_item_to_cart(1, i, q)
    \/ \E i \in ItemNos : remove_item_from_cart(1, i)
    \/ \E i \in ItemNos, q \in Quantities : update_cart_item_quantity(1, i, q)
    \/ clear_cart(1)
    \/ \E p \in PaymentTypes, c \in Customers, a \in Adjustments,
          g \in Adjustments : process_sale(1, p, c, a, g, 0)
    \/ \E p \in PaymentTypes, c \in Customers, f \in Faults :
          process_sale(1, p, c, 0, 0, f)
    \/ \E i \in ItemNos, p \in Prices, n \in 0..MaxStock : update_product(i, p, n)
    \/ \E i \in ItemNos, q \in Quantities : log_stock_in(i, q)

Spec == Init /\ [][Next]_vars

\* The credit ledger next to a store in which Cash and Credit sales are
\* attempted.
NextCredit ==
    \/ \E i \in ItemNos, q \in Quantities : add_item_to_cart(1, i, q)
    \/ \E p \in PaymentTypes, c \in Customers : process_sale(1, p, c, 0, 0, 0)
    \/ \E n \in SaleIds, c \in Customers, a \in Amounts : add_credit_sale(n, c, a)
    \/ \E k \in CreditIds, a \in Amounts : record_credit_payment(k, a)

SpecCredit == Init /\ [][NextCredit]_vars

(***************************************************************************)
(* The cart of one session next to a store whose products are edited or   *)
(* discontinued.                                                           *)
(***************************************************************************)
\* DatabaseManager.update_product_status: UPDATE products SET is_active = ?
\* WHERE item_no = ? (a statement that matches no row still succeeds).
UpdateProductStatus(d, item_no, is_active) ==
    IF item_no \in DOMAIN d.products
    THEN [d EXCEPT !.products[item_no].is_active = is_active]
    ELSE d

update_product_status(item_no, is_active) ==
    /\ lock = 0
    /\ Call
    /\ db' = UpdateProductStatus(db, item_no, is_active)
    /\ ret' = Returned("update_product_status", 0, TRUE, "StatusUpdated")
    /\ UNCHANGED <<cart, pc, local, txn, lock>>

NextCart ==
    \/ \E i \in ItemNos, q \in Quantities : add_item_to_cart(1, i, q)
    \/ \E i \in ItemNos : remove_item_from_cart(1, i)
    \/ \E i \in ItemNos, q \in Quantities : update_cart_item_quantity(1, i, q)
    \/ clear_cart(1)
    \/ \E a, g \in Adjustments : calculate_cart_total(1, a, g)
    \/ \E i \in ItemNos, p \in Prices, n \in 0..MaxStock : update_product(i, p, n)

SpecCart == Init /\ [][NextCart]_vars

\* Totals asked for carts of every content, at prices that change.
NextTotals ==
    \/ \E i \in ItemNos, q \in Quantities : add_item_to_cart(1, i, q)
    \/ \E i \in ItemNos, p \in Prices : update_product(i, p, MaxStock)
    \/ \E a, g \in TotalInputs : calculate_cart_total(1, a, g)

SpecTotals == Init /\ [][NextTotals]_vars

\* InventoryManager.update_stock called by itself, on a connection of its
\* own while no transaction is open.
update_stock(item_no, quantity_change) ==
    LET r == UpdateStock(db, item_no, quantity_change, FALSE)
    IN  /\ lock = 0
        /\ Call
        /\ db' = r.db
        /\ ret' = Returned("update_stock", 0, r.ok,
                           IF r.ok THEN "StockUpdated" ELSE "Failed")
        /\ UNCHANGED <<cart, pc, local, txn, lock>>

HistoryItems == {"A", "Z"}     \* a product of the store and an unknown code

\* Sales followed by everything that can come after them: price and stock
\* edits, stock-ins, stock adjustments, further sales, credit entries and
\* payments.
NextHistory ==
    \/ \E i \in HistoryItems, q \in 1..MaxQty : add_item_to_cart(1, i, q)
    \/ clear_cart(1)
    \/ \E p \in PaymentTypes, c \in Customers : process_sale(1, p, c, 0, 0, 0)
    \/ \E i \in HistoryItems, p \in Prices, n \in {0, MaxStock} : update_product(i, p, n)
    \/ \E i \in HistoryItems, q \in 1..MaxQty : log_stock_in(i, q)
    \/ \E i \in HistoryItems, q \in Adjustments : update_stock(i, q)
    \/ \E n \in SaleIds, a \in 1..MaxAmount : add_credit_sale(n, "Ana", a)
    \/ \E k \in CreditIds, a \in 1..MaxAmount : record_credit_payment(k, a)

SpecHistory == Init /\ [][NextHistory]_vars

\* Deliveries logged between the sales of one session.
NextStock ==
    \/ \E i \in ItemNos, q \in Quantities : add_item_to_cart(1, i, q)
    \/ \E p \in PaymentTypes, c \in Customers : process_sale(1, p, c, 0, 0, 0)
    \/ \E i \in ItemNos, q \in Quantities : log_stock_in(i, q)

SpecStock == Init /\ [][NextStock]_vars

(***************************************************************************)
(* retail_1.py: the monolithic variant. One application holds one          *)
(* connection; db.products is its inventory table, cart[s] is              *)
(* pos_cart_items and local[s] is selected_pos_item_data (NoLocal is None). *)
(***************************************************************************)
\* DatabaseManager.get_item_by_item_no, as pos_select_item keeps it.
SelectedItemData(d, item_no) ==
    [item_no |-> item_no,
     selling_price |-> d.products[item_no].selling_price,
     current_stock |-> d.products[item_no].current_stock]

\* GroceryStoreApp.add_item_to_cart: [ok, why, cart]
GroceryStoreAppAddItemToCart(c, selected, qty_to_add) ==
    LET k == CartIndex(c, selected.item_no)
    IN  IF selected = NoLocal
        THEN [ok |-> FALSE, why |-> "NoItemSelected", cart |-> c]
        ELSE IF qty_to_add <= 0
        THEN [ok |-> FALSE, why |-> "InvalidQuantity", cart |-> c]
        ELSE IF qty_to_add > selected.current_stock
        THEN [ok |-> FALSE, why |-> "InsufficientStock", cart |-> c]
        ELSE IF k # 0 /\ c[k].quantity + qty_to_add > selected.current_stock
        THEN [ok |-> FALSE, why |-> "InsufficientStock", cart |-> c]
        ELSE IF k # 0
        THEN [ok |-> TRUE, why |-> "Added",
              cart |-> [c EXCEPT ![k].quantity = @ + qty_to_add,
                                 ![k].subtotal = (c[k].quantity + qty_to_add)
                                                 * c[k].price_at_sale]]
        ELSE [ok |-> TRUE, why |-> "Added",
              cart |-> Append(c, [item_no |-> selected.item_no,
                                  quantity |-> qty_to_add,
                                  price_at_sale |-> selected.selling_price,
                                  subtotal |-> qty_to_add
                                               * selected.selling_price])]

\* DatabaseManager.update_stock of retail_1.py: the UPDATE and a commit.
Retail1UpdateStock(d, item_no, quantity_change) ==
    IF item_no \in DOMAIN d.products
    THEN [d EXCEPT !.products[item_no].current_stock = @ + quantity_change]
    ELSE d

\* The loop of record_sale from line k on. d is the store as of the last
\* commit together with what the connection has pending. Statement 2k is
\* the INSERT of line k and statement 2k + 1 its stock UPDATE; fault is the
\* statement that raises sqlite3.Error (0: none). A failing INSERT reaches
\* record_sale's handler, whose rollback finds nothing pending, every
\* earlier statement having been committed by update_stock; a failing
\* UPDATE is caught inside update_stock, whose result is not looked at, and
\* the loop goes on.
RECURSIVE RecordSaleItems(_, _, _, _, _)
RecordSaleItems(d, sale_id, sale_items, k, fault) ==
    IF k > Len(sale_items) THEN [ok |-> TRUE, db |-> d]
    ELSE IF fault = 2 * k THEN [ok |-> FALSE, db |-> d]
    ELSE LET item == sale_items[k]
             inserted == [d EXCEPT !.sale_items =
                              Append(@, [sale_id |-> sale_id,
                                         item_no |-> item.item_no,
                                         quantity_sold |-> item.quantity,
                                         selling_price_at_sale |->
                                             item.price_at_sale,
                                         subtotal |-> item.subtotal])]
             deducted == IF fault = 2 * k + 1 THEN inserted
                         ELSE Retail1UpdateStock(inserted, item.item_no,
                                                 -item.quantity)
         IN  RecordSaleItems(deducted, sale_id, sale_items, k + 1, fault)

\* DatabaseManager.record_sale: the sale row is inserted and committed,
\* then the lines follow.
RecordSale(d, sale_data, sale_items, fault) ==
    IF fault = 1 THEN [ok |-> FALSE, db |-> d]
    ELSE RecordSaleItems(InsertSaleRow(d, sale_data), NextSaleId(d),
                         sale_items, 1, fault)

\* GroceryStoreApp.process_sale (additional charge 0): [ok, why, db, cart]
GroceryStoreAppProcessSale(c, d, payment_type, customer_name, paid_amount, fault) ==
    LET total_amount_to_record == SumSubtotals(c)
        sale_data == [total_amount |-> total_amount_to_record,
                      payment_type |-> payment_type,
                      customer_name |-> IF payment_type = "Credit"
                                        THEN customer_name ELSE ""]
        r == RecordSale(d, sale_data, c, fault)
    IN  IF c = <<>>
        THEN [ok |-> FALSE, why |-> "EmptyCart", db |-> d, cart |-> c]
        ELSE IF payment_type = "Credit" /\ customer_name = ""
        THEN [ok |-> FALSE, why |-> "CustomerNameRequired", db |-> d, cart |-> c]
        ELSE IF payment_type # "Credit" /\ paid_amount < total_amount_to_record
        THEN [ok |-> FALSE, why |-> "InsufficientPayment", db |-> d, cart |-> c]
        ELSE IF r.ok
        THEN [ok |-> TRUE, why |-> "Processed", db |-> r.db, cart |-> <<>>]
        ELSE [ok |-> FALSE, why |-> "SaleError", db |-> r.db, cart |-> c]

\* GroceryStoreApp.pos_select_item: a row of the search results is chosen
\* (an event of the window, not counted as a call).
pos_select_item(s, item_no) ==
    /\ item_no \in DOMAIN db.products
    /\ local' = [local EXCEPT ![s] = SelectedItemData(db, item_no)]
    /\ UNCHANGED <<db, cart, ret, pc, txn, lock, calls>>

\* The selection is not cleared by the call.
GroceryStoreApp_add_item_to_cart(s, qty_to_add) ==
    LET r == GroceryStoreAppAddItemToCart(cart[s], local[s], qty_to_add)
    IN  /\ Call
        /\ cart' = [cart EXCEPT ![s] = r.cart]
        /\ ret' = Returned("GroceryStoreApp.add_item_to_cart", s, r.ok, r.why)
        /\ UNCHANGED <<db, pc, local, txn, lock>>

\* The selection is not cleared by the call either.
GroceryStoreApp_process_sale(s, payment_type, customer_name, paid_amount, fault) ==
    LET r == GroceryStoreAppProcessSale(cart[s], db, payment_type,
                                        customer_name, paid_amount, fault)
    IN  /\ Call
        /\ db' = r.db
        /\ cart' = [cart EXCEPT ![s] = r.cart]
        /\ ret' = [Returned("GroceryStoreApp.process_sale", s, r.ok, r.why)
                      EXCEPT !.payment_type = payment_type,
                             !.customer_name = customer_name,
                             !.amount = paid_amount]
        /\ UNCHANGED <<pc, local, txn, lock>>

\* The statements of record_sale that may raise, for carts of up to two
\* lines (0: none does).
Retail1Faults == 0..(1 + 2 * Cardinality({"A", "B"}))

\* What is tendered: nothing, or the total of the cart.
Tendered(c) == {0, SumSubtotals(c)}

NextMono ==
    \/ \E i \in ItemNos : pos_select_item(1, i)
    \/ \E q \in Quantities : GroceryStoreApp_add_item_to_cart(1, q)
    \/ \E p \in PaymentTypes, c \in Customers, a \in Tendered(cart[1]),
          f \in Retail1Faults : GroceryStoreApp_process_sale(1, p, c, a, f)

SpecMono == Init /\ [][NextMono]_vars

\* DatabaseManager.delete_product: DELETE FROM products WHERE item_no = ?
DeleteProduct(d, item_no) ==
    [d EXCEPT !.products = [i \in DOMAIN @ \ {item_no} |-> @[i]]]

delete_product(item_no) ==
    /\ lock = 0
    /\ Call
    /\ db' = DeleteProduct(db, item_no)
    /\ ret' = Returned("delete_product", 0, TRUE, "Deleted")
    /\ UNCHANGED <<cart, pc, local, txn, lock>>

\* Sales that are refused: charges and discounts, storage faults, products
\* that sold out or were deleted since they were put in the cart.
NextReject ==
    \/ \E i \in ItemNos, q \in 1..MaxQty : add_item_to_cart(1, i, q)
    \/ \E p \in PaymentTypes, c \in Customers, a \in Adjustments,
          g \in Adjustments : process_sale(1, p, c, a, g, 0)
    \/ \E p \in PaymentTypes, c \in Customers, f \in Faults :
          process_sale(1, p, c, 0, 0, f)
    \/ \E i \in ItemNos : update_product(i, 1, 0)
    \/ \E i \in ItemNos : delete_product(i)

SpecReject == Init /\ [][NextReject]_vars

\* A session filling its cart and selling while products are discontinued
\* and reactivated.
NextInactive ==
    \/ \E i \in ItemNos, q \in Quantities : add_item_to_cart(1, i, q)
    \/ \E p \in PaymentTypes, c \in Customers : process_sale(1, p, c, 0, 0, 0)
    \/ \E i \in ItemNos, a \in {0, 1} : update_product_status(i, a)

SpecInactive == Init /\ [][NextInactive]_vars

(***************************************************************************)
(* process_sale of session s step by step, for sessions that run it at the *)
(* same time on connections of their own (charges and discount 0).         *)
(***************************************************************************)
\* The call returns: its locals are gone.
ps_return(s, ok, why, sale_id) ==
    /\ pc' = [pc EXCEPT ![s] = "idle"]
    /\ ret' = [Returned("process_sale", s, ok, why) EXCEPT
                  !.sale_id = sale_id,
                  !.payment_type = local[s].payment_type,
                  !.customer_name = local[s].customer_name]
    /\ local' = [local EXCEPT ![s] = NoLocal]

\* Entry of the call up to the re-validation loop: the empty-cart and the
\* total checks.
ps_call(s, payment_type, customer_name) ==
    /\ pc[s] = "idle"
    /\ Call
    /\ IF CartIsEmpty(cart[s])
       THEN /\ ret' = [Returned("process_sale", s, FALSE, "EmptyCart") EXCEPT
                          !.payment_type = payment_type,
                          !.customer_name = customer_name]
            /\ UNCHANGED <<pc, local>>
       ELSE IF /\ CalculateCartTotal(cart[s], 0, 0).grand_total <= 0
               /\ payment_type # "Credit"
       THEN /\ ret' = [Returned("process_sale", s, FALSE, "NonPositiveTotal")
                          EXCEPT !.payment_type = payment_type,
                                 !.customer_name = customer_name]
            /\ UNCHANGED <<pc, local>>
       ELSE /\ pc' = [pc EXCEPT ![s] = "validate"]
            /\ local' = [local EXCEPT ![s] = [payment_type |-> payment_type,
                                              customer_name |-> customer_name,
                                              k |-> 1]]
            /\ ret' = ret
    /\ UNCHANGED <<db, cart, txn, lock>>

\* One round of the re-validation loop: a point lookup of line k's product
\* in the committed contents.
ps_validate(s) ==
    /\ pc[s] = "validate"
    /\ IF ValidationFails(SubSeq(cart[s], local[s].k, local[s].k), db)
       THEN ps_return(s, FALSE, "StockInsufficient", 0)
       ELSE /\ pc' = [pc EXCEPT ![s] = IF local[s].k = Len(cart[s])
                                       THEN "begin" ELSE "validate"]
            /\ local' = [local EXCEPT ![s].k = @ + 1]
            /\ ret' = ret
    /\ UNCHANGED <<db, cart, txn, lock, calls>>

\* INSERT INTO sales: the connection's transaction begins and takes the
\* write lock, which no other connection holds.
ps_insert_sale(s) ==
    /\ pc[s] = "begin"
    /\ lock = 0
    /\ lock' = s
    /\ txn' = InsertSaleRow(db, [total_amount |->
                                     CalculateCartTotal(cart[s], 0, 0).grand_total,
                                 payment_type |-> local[s].payment_type,
                                 customer_name |-> local[s].customer_name])
    /\ pc' = [pc EXCEPT ![s] = "write"]
    /\ local' = [local EXCEPT ![s].k = 1]
    /\ UNCHANGED <<db, cart, ret, calls>>

\* INSERT INTO sales while another connection holds the write lock for
\* longer than the busy timeout: "database is locked" is raised and caught.
ps_busy(s) ==
    /\ pc[s] = "begin"
    /\ lock # 0
    /\ ps_return(s, FALSE, "Exception", 0)
    /\ UNCHANGED <<db, cart, txn, lock, calls>>

\* Mutant of the write loop: each statement is committed as it is executed.
ps_write_Autocommit(s) ==
    LET item == SaleItemsData(cart[s])[local[s].k]
        sale_id == txn.sales[Len(txn.sales)].sale_id
    IN  /\ pc[s] = "write"
        /\ txn' = DecrementStock(InsertSaleItem(txn, sale_id, item), item)
        /\ db' = DecrementStock(InsertSaleItem(db, sale_id, item), item)
        /\ pc' = [pc EXCEPT ![s] = IF local[s].k = Len(cart[s])
                                   THEN "finish" ELSE "write"]
        /\ local' = [local EXCEPT ![s].k = @ + 1]
        /\ UNCHANGED <<cart, ret, lock, calls>>

\* One round of the write loop: the line item, the stock decrement, and
\* update_stock(item_no, 0) on a connection that finds the store locked.
ps_write(s) ==
    LET item == SaleItemsData(cart[s])[local[s].k]
        sale_id == txn.sales[Len(txn.sales)].sale_id
    IN  /\ pc[s] = "write"
        /\ txn' = DecrementStock(InsertSaleItem(txn, sale_id, item), item)
        /\ db' = UpdateStock(db, item.item_no, 0, lock # 0).db
        /\ pc' = [pc EXCEPT ![s] = IF local[s].k = Len(cart[s])
                                   THEN "finish" ELSE "write"]
        /\ local' = [local EXCEPT ![s].k = @ + 1]
        /\ UNCHANGED <<cart, ret, lock, calls>>

\* The credit step, then commit or rollback; the lock is released.
ps_finish(s) ==
    LET step3 == CreditHandling(local[s].payment_type, local[s].customer_name)
        sale_id == txn.sales[Len(txn.sales)].sale_id
        credited == AddCreditSale(db, sale_id, local[s].customer_name,
                                  CalculateCartTotal(cart[s], 0, 0).grand_total,
                                  lock # 0).db
    IN  /\ pc[s] = "finish"
        /\ IF step3 \in {"CustomerNameRequired", "Exception"}
           THEN /\ db' = Rollback(db, txn)
                /\ cart' = cart
                /\ ps_return(s, FALSE, step3, 0)
           ELSE /\ db' = Commit(IF step3 = "CreditThenCommit"
                                THEN credited ELSE db, txn)
                /\ cart' = [cart EXCEPT ![s] = <<>>]
                /\ ps_return(s, TRUE, "Processed", sale_id)
        /\ lock' = 0
        /\ txn' = InitDb
        /\ UNCHANGED calls

NextRace ==
    \/ \E s \in Sessions, i \in ItemNos, q \in Quantities :
           add_item_to_cart(s, i, q)
    \/ \E s \in Sessions, p \in PaymentTypes, c \in Customers : ps_call(s, p, c)
    \/ \E s \in Sessions : ps_validate(s)
    \/ \E s \in Sessions : ps_insert_sale(s)
    \/ \E s \in Sessions : ps_busy(s)
    \/ \E s \in Sessions : ps_write(s)
    \/ \E s \in Sessions : ps_finish(s)

SpecRace == Init /\ [][NextRace]_vars

(***************************************************************************)
(* log_stock_in of session s step by step, on connections of its own       *)
(* while another session sells. local[s] holds the call's item_no and      *)
(* quantity_added between its two writes.                                  *)
(***************************************************************************)
\* The checks, then add_stock_in_log: an INSERT and a commit, refused when
\* another connection holds the write lock for longer than the busy
\* timeout.
li_log(s, item_no, quantity_added) ==
    /\ pc[s] = "idle"
    /\ Call
    /\ IF quantity_added <= 0
       THEN /\ ret' = Returned("log_stock_in", s, FALSE, "InvalidQuantity")
            /\ UNCHANGED <<db, pc, local>>
       ELSE IF GetProduct(db, item_no) = NoProduct
       THEN /\ ret' = Returned("log_stock_in", s, FALSE, "NotFound")
            /\ UNCHANGED <<db, pc, local>>
       ELSE IF lock # 0
       THEN /\ ret' = Returned("log_stock_in", s, FALSE, "LogFailed")
            /\ UNCHANGED <<db, pc, local>>
       ELSE /\ db' = AddStockInLog(db, item_no, quantity_added)
            /\ pc' = [pc EXCEPT ![s] = "stock_update"]
            /\ local' = [local EXCEPT ![s] = [item_no |-> item_no,
                                              quantity_added |-> quantity_added]]
            /\ ret' = ret
    /\ UNCHANGED <<cart, txn, lock>>

\* InventoryManager.update_stock for the entry just logged; when it fails
\* the entry stays.
li_update(s) ==
    LET u == UpdateStock(db, local[s].item_no, local[s].quantity_added, lock # 0)
    IN  /\ pc[s] = "stock_update"
        /\ db' = u.db
        /\ ret' = Returned("log_stock_in", s, u.ok,
                           IF u.ok THEN "StockIn" ELSE "StockUpdateFailed")
        /\ pc' = [pc EXCEPT ![s] = "idle"]
        /\ local' = [local EXCEPT ![s] = NoLocal]
        /\ UNCHANGED <<cart, txn, lock, calls>>

\* Session 1 sells while session 2 logs deliveries (session 1 is the only
\* one to take the write lock for a sale, so it never finds it taken).
NextStockRace ==
    \/ \E i \in ItemNos, q \in Quantities : add_item_to_cart(1, i, q)
    \/ \E p \in PaymentTypes, c \in Customers : ps_call(1, p, c)
    \/ ps_validate(1)
    \/ ps_insert_sale(1)
    \/ ps_write(1)
    \/ ps_finish(1)
    \/ \E i \in ItemNos, q \in Quantities : li_log(2, i, q)
    \/ li_update(2)

SpecStockRace == Init /\ [][NextStockRace]_vars

(***************************************************************************)
(* Properties of the sale committer, one session (Spec).                   *)
(***************************************************************************)
\* This step is a call of op by session s that has returned.
CallOf(op, s) == calls' = calls + 1 /\ ret'.op = op /\ ret'.session = s

\* The tables a sale touches are as they were before the step.
SaleTablesUnchanged ==
    /\ db'.sales = db.sales
    /\ db'.sale_items = db.sale_items
    /\ db'.credit_sales = db.credit_sales
    /\ \A i \in DOMAIN db.products :
           /\ i \in DOMAIN db'.products
           /\ db'.products[i].current_stock = db.products[i].current_stock

\* C1: with one session, and stock-in and product edits that keep stock >= 0
\* between its calls, no product's current_stock is ever below 0.
C1_StockNeverNegative ==
    \A i \in DOMAIN db.products : db.products[i].current_stock >= 0

\* A sale has just been committed after the stock was edited, and it took
\* the last unit of a product.
C1_Witness ==
    /\ ret.op = "process_sale" /\ ret.ok
    /\ \E i \in DOMAIN db.products : db.products[i].current_stock = 0
    /\ \E k \in 1..Len(db.sale_items) : db.sale_items[k].quantity_sold < MaxStock

\* Some cart line asks for more than the persisted stock of its product.
StockDropped(c, d) ==
    \E k \in 1..Len(c) :
        /\ GetProduct(d, c[k].item_no) # NoProduct
        /\ GetProduct(d, c[k].item_no).current_stock < c[k].quantity

\* C2: a process_sale call made while the persisted stock of some cart line's
\* product is lower than the line's quantity fails, and sales, sale_items,
\* products.current_stock and credit_sales are as before the call.
C2_RevalidationFailureWritesNothing ==
    [][(CallOf("process_sale", 1) /\ StockDropped(cart[1], db))
        => (~ret'.ok /\ SaleTablesUnchanged)]_vars

\* process_sale has just failed on a two-line cart whose second line lost
\* its stock after it was added.
C2_Witness ==
    /\ ret.op = "process_sale" /\ ret.why = "StockInsufficient"
    /\ Len(cart[1]) = 2
    /\ ~StockDropped(SubSeq(cart[1], 1, 1), db)
    /\ StockDropped(cart[1], db)

\* C3: a process_sale call whose write phase fails (a statement of the
\* transaction or the commit raises, the customer name is missing, the credit
\* entry cannot be opened) leaves no sale row, no line item, no stock change
\* and no credit entry.
C3_WritePhaseFailureRollsBack ==
    [][(CallOf("process_sale", 1)
        /\ ret'.why \in {"Exception", "CustomerNameRequired"})
        => (~ret'.ok /\ SaleTablesUnchanged /\ db' = db)]_vars

\* A Cash sale has just failed in its write phase: a statement raised.
C3_Witness ==
    /\ ret.op = "process_sale" /\ ret.why = "Exception"
    /\ ret.payment_type = "Cash"
    /\ cart[1] # <<>>

\* Sum of quantity_sold x selling_price_at_sale over the line items of a sale.
RECURSIVE LineItemsTotal(_, _)
LineItemsTotal(rows, sale_id) ==
    IF rows = <<>> THEN 0
    ELSE (IF Head(rows).sale_id = sale_id
          THEN Head(rows).quantity_sold * Head(rows).selling_price_at_sale
          ELSE 0) + LineItemsTotal(Tail(rows), sale_id)

\* C4: the total_amount stored by a committed process_sale equals the sum of
\* its persisted line items' quantity_sold x selling_price_at_sale, plus the
\* charge, minus the discount (both as calculate_cart_total reports them).
C4_SaleTotalIntegrity ==
    [][\A a \in Adjustments, g \in Adjustments :
        (/\ CallOf("process_sale", 1)
         /\ ret'.ok
         /\ process_sale(1, ret'.payment_type, ret'.customer_name, a, g, 0))
        => db'.sales[ret'.sale_id].total_amount =
               LineItemsTotal(db'.sale_items, ret'.sale_id)
               + CalculateCartTotal(cart[1], a, g).charges
               - CalculateCartTotal(cart[1], a, g).discount]_vars

\* Credit entries that reference a sale.
CreditEntriesOf(d, sale_id) ==
    {k \in 1..Len(d.credit_sales) : d.credit_sales[k].sale_id = sale_id}

\* C5: process_sale with payment type Credit, a customer name, a non-empty
\* cart, sufficient stock and a positive grand total succeeds and leaves
\* exactly one credit entry for the new sale: original_amount the grand
\* total, amount_paid 0, balance the original amount, status Unpaid.
C5_CreditSaleOpensEntry ==
    [][\A a \in Adjustments, g \in Adjustments :
        (/\ CallOf("process_sale", 1)
         /\ ret'.payment_type = "Credit"
         /\ ret'.customer_name # ""
         /\ cart[1] # <<>>
         /\ ~ValidationFails(cart[1], db)
         /\ CalculateCartTotal(cart[1], a, g).grand_total > 0
         /\ process_sale(1, "Credit", ret'.customer_name, a, g, 0))
        => /\ ret'.ok
           /\ Cardinality(CreditEntriesOf(db', ret'.sale_id)) = 1
           /\ \A k \in CreditEntriesOf(db', ret'.sale_id) :
                  /\ db'.credit_sales[k].original_amount =
                         CalculateCartTotal(cart[1], a, g).grand_total
                  /\ db'.credit_sales[k].amount_paid = 0
                  /\ db'.credit_sales[k].balance =
                         db'.credit_sales[k].original_amount
                  /\ db'.credit_sales[k].status = "Unpaid"]_vars

\* C8: process_sale with payment type Credit and an empty customer name
\* fails, and sales, sale_items, credit_sales and every product's
\* current_stock and reorder_alert are as before the call.
C8_CreditWithoutNameWritesNothing ==
    [][(/\ CallOf("process_sale", 1)
        /\ ret'.payment_type = "Credit"
        /\ ret'.customer_name = "")
        => (/\ ~ret'.ok
            /\ SaleTablesUnchanged
            /\ \A i \in DOMAIN db.products :
                   db'.products[i].reorder_alert = db.products[i].reorder_alert)]_vars

\* A Credit sale without a name has just been refused after its statements
\* ran: the cart is still there and its stock is still in the store.
C8_Witness ==
    /\ ret.op = "process_sale" /\ ret.why = "CustomerNameRequired"
    /\ cart[1] # <<>>
    /\ ~ValidationFails(cart[1], db)

\* C14: process_sale on a cart with no lines (never filled, cleared, or with
\* every line removed) fails as empty cart for either payment type and
\* changes nothing in the store.
C14_EmptyCartRejected ==
    [][(CallOf("process_sale", 1) /\ cart[1] = <<>>)
        => (~ret'.ok /\ ret'.why = "EmptyCart" /\ db' = db /\ cart' = cart)]_vars

\* A Credit sale has just been refused on a cart that was filled and then
\* emptied by the session, with nothing sold so far.
C14_Witness ==
    /\ ret.op = "process_sale" /\ ret.why = "EmptyCart"
    /\ ret.payment_type = "Credit"
    /\ cart[1] = <<>>
    /\ calls >= 3
    /\ db = InitDb

\* C15: a successful process_sale decreases the current_stock of each
\* product in the cart by exactly that line's quantity and leaves the
\* current_stock of every product not in the cart unchanged.
C15_SaleDecrementsExactly ==
    [][(CallOf("process_sale", 1) /\ ret'.ok)
        => \A i \in DOMAIN db.products :
               /\ i \in DOMAIN db'.products
               /\ db'.products[i].current_stock =
                      db.products[i].current_stock - CartQuantity(cart[1], i)]_vars

\* A sale of one line of more than one unit has just committed; the other
\* product still has its initial stock.
C15_Witness ==
    /\ ret.op = "process_sale" /\ ret.ok
    /\ Len(db.sale_items) = 1
    /\ db.sale_items[1].quantity_sold > 1
    /\ \E i \in DOMAIN db.products :
           /\ i # db.sale_items[1].item_no
           /\ db.products[i].current_stock = MaxStock

\* C16: a successful process_sale leaves the cart empty and returns the id of
\* the newly inserted sale, which differs from the id of every sale
\* committed before.
C16_SuccessClearsCartAndReturnsNewId ==
    [][(CallOf("process_sale", 1) /\ ret'.ok)
        => /\ cart'[1] = <<>>
           /\ Len(db'.sales) = Len(db.sales) + 1
           /\ db'.sales[Len(db'.sales)].sale_id = ret'.sale_id
           /\ \A n \in 1..Len(db.sales) :
                  /\ db'.sales[n] = db.sales[n]
                  /\ db.sales[n].sale_id # ret'.sale_id]_vars

\* The second sale of a session has just committed.
C16_Witness ==
    /\ ret.op = "process_sale" /\ ret.ok
    /\ Len(db.sales) = 2
    /\ cart[1] = <<>>

(***************************************************************************)
(* Properties of the cart (SpecCart).                                      *)
(***************************************************************************)
\* Every cart line is for a product of the store and asks for no more than
\* its current_stock.
CartWithinStock(c, d) ==
    \A k \in 1..Len(c) :
        /\ GetProduct(d, c[k].item_no) # NoProduct
        /\ c[k].quantity <= GetProduct(d, c[k].item_no).current_stock

\* This step is one of the cart calls add / update-quantity / remove.
CartCall ==
    /\ calls' = calls + 1
    /\ ret'.op \in {"add_item_to_cart", "update_cart_item_quantity",
                    "remove_item_from_cart"}

\* C17: add_item_to_cart fails and leaves the cart unchanged whenever the
\* quantity already in the cart for the item plus the requested quantity
\* exceeds the product's current_stock; and a cart whose lines are all
\* within stock is still so after an add, update-quantity or remove call.
C17_CartNeverExceedsStock ==
    [][/\ \A i \in ItemNos, q \in Quantities :
              (/\ CallOf("add_item_to_cart", 1)
               /\ add_item_to_cart(1, i, q)
               /\ GetProduct(db, i) # NoProduct
               /\ CartQuantity(cart[1], i) + q > GetProduct(db, i).current_stock)
              => (~ret'.ok /\ cart' = cart)
       /\ (CartCall /\ CartWithinStock(cart[1], db))
              => CartWithinStock(cart'[1], db')]_vars

\* An add has just been refused for the one item of the cart, whose line
\* already holds part of the stock; any other product has stock for any
\* request.
C17_Witness ==
    /\ ret.op = "add_item_to_cart" /\ ret.why = "InsufficientStock"
    /\ Len(cart[1]) = 1
    /\ cart[1][1].quantity >= 1
    /\ CartWithinStock(cart[1], db)
    /\ \A i \in DOMAIN db.products :
           i # cart[1][1].item_no => db.products[i].current_stock >= MaxQty

\* C18: for every cart line, after any sequence of add_item_to_cart and
\* update_cart_item_quantity calls, subtotal = quantity x the unit price
\* captured when the item was first added to the cart, also when the
\* product's selling price was changed in the store between the calls.
C18_SubtotalAtCapturedPrice ==
    \A k \in 1..Len(cart[1]) :
        cart[1][k].subtotal =
            cart[1][k].quantity * cart[1][k].product_data.selling_price

\* C19: add_item_to_cart fails and leaves the cart unchanged when the
\* product exists but is flagged inactive (is_active = 0).
C19_InactiveProductRefused ==
    [][\A i \in ItemNos, q \in Quantities :
        (/\ CallOf("add_item_to_cart", 1)
         /\ add_item_to_cart(1, i, q)
         /\ GetProduct(db, i) # NoProduct
         /\ GetProduct(db, i).is_active = 0)
        => (~ret'.ok /\ cart' = cart)]_vars

Max(a, b) == IF a >= b THEN a ELSE b

\* C6: after every record_credit_payment call, accepted or rejected, on
\* entries written by add_credit_sale, balance = max(0, original_amount -
\* amount_paid).
C6_BalanceReconciles ==
    \A k \in 1..Len(db.credit_sales) :
        db.credit_sales[k].balance =
            Max(0, db.credit_sales[k].original_amount
                   - db.credit_sales[k].amount_paid)

\* A payment larger than the balance has just been accepted.
C6_Witness ==
    /\ ret.op = "record_credit_payment" /\ ret.ok
    /\ db.credit_sales[ret.credit_id].amount_paid >
           db.credit_sales[ret.credit_id].original_amount

\* C7 as claimed: once an entry is Paid, every record_credit_payment call on
\* it fails as already paid and the entry never changes again.
C7_PaidAlwaysFailsAsAlreadyPaid ==
    [][\A k \in 1..Len(db.credit_sales) :
        db.credit_sales[k].status = "Paid" =>
            /\ db'.credit_sales[k] = db.credit_sales[k]
            /\ (CallOf("record_credit_payment", 0) /\ ret'.credit_id = k)
                   => (~ret'.ok /\ ret'.why = "AlreadyPaid")]_vars

\* C7 as amended: once an entry is Paid, every record_credit_payment call on
\* it fails, as already paid when the amount is positive and as an invalid
\* amount otherwise, and the entry (amount_paid, balance, status) never
\* changes again.
C7_PaidIsFinal ==
    [][\A k \in 1..Len(db.credit_sales) :
        db.credit_sales[k].status = "Paid" =>
            /\ db'.credit_sales[k] = db.credit_sales[k]
            /\ (CallOf("record_credit_payment", 0) /\ ret'.credit_id = k)
                   => /\ ~ret'.ok
                      /\ ret'.amount > 0 => ret'.why = "AlreadyPaid"
                      /\ ret'.amount <= 0 => ret'.why = "InvalidAmount"]_vars

\* A positive payment on a Paid entry has just been refused.
C7_Witness ==
    /\ ret.op = "record_credit_payment" /\ ret.why = "AlreadyPaid"
    /\ db.credit_sales[ret.credit_id].status = "Paid"

\* C10: every committed Credit sale has exactly one credit entry, whose
\* original_amount is the sale's total_amount, and every credit entry
\* references an existing sale of payment type Credit.
C10_OneEntryPerCreditSale ==
    /\ \A n \in 1..Len(db.sales) :
           db.sales[n].payment_type = "Credit" =>
               /\ Cardinality(CreditEntriesOf(db, db.sales[n].sale_id)) = 1
               /\ \A k \in CreditEntriesOf(db, db.sales[n].sale_id) :
                      db.credit_sales[k].original_amount = db.sales[n].total_amount
    /\ \A k \in 1..Len(db.credit_sales) :
           \E n \in 1..Len(db.sales) :
               /\ db.sales[n].sale_id = db.credit_sales[k].sale_id
               /\ db.sales[n].payment_type = "Credit"

\* C11: in every reachable state each credit entry's status is determined
\* by its amounts: Unpaid iff amount_paid = 0 and balance = original_amount,
\* Partially Paid iff 0 < balance < original_amount, Paid iff balance = 0.
C11_StatusFollowsAmounts ==
    \A k \in 1..Len(db.credit_sales) :
        LET e == db.credit_sales[k]
        IN  /\ e.status = "Unpaid" <=>
                   (e.amount_paid = 0 /\ e.balance = e.original_amount)
            /\ e.status = "Partially Paid" <=>
                   (0 < e.balance /\ e.balance < e.original_amount)
            /\ e.status = "Paid" <=> e.balance = 0

\* A payment smaller than the balance has just been accepted, next to an
\* entry that is still Unpaid or one that is Paid.
C11_Witness ==
    /\ ret.op = "record_credit_payment" /\ ret.ok
    /\ db.credit_sales[ret.credit_id].status = "Partially Paid"
    /\ \E k \in 1..Len(db.credit_sales) :
           db.credit_sales[k].status \in {"Unpaid", "Paid"}

\* C12: record_credit_payment on a non-Paid entry with an amount larger than
\* the remaining balance is accepted: amount_paid grows by the full amount,
\* balance becomes 0 and status becomes Paid.
C12_OverpaymentAccepted ==
    [][\A k \in 1..Len(db.credit_sales) :
        (/\ CallOf("record_credit_payment", 0)
         /\ ret'.credit_id = k
         /\ db.credit_sales[k].status # "Paid"
         /\ ret'.amount > db.credit_sales[k].balance)
        => /\ ret'.ok
           /\ db'.credit_sales[k].amount_paid =
                  db.credit_sales[k].amount_paid + ret'.amount
           /\ db'.credit_sales[k].balance = 0
           /\ db'.credit_sales[k].status = "Paid"]_vars

\* A Partially Paid entry has just been overpaid: the payments together are
\* more than the original amount.
C12_Witness ==
    /\ ret.op = "record_credit_payment" /\ ret.ok
    /\ db.credit_sales[ret.credit_id].status = "Paid"
    /\ db.credit_sales[ret.credit_id].amount_paid >
           db.credit_sales[ret.credit_id].original_amount
    /\ db.credit_sales[ret.credit_id].amount_paid > ret.amount

\* C13: record_credit_payment fails when the amount is <= 0, when the credit
\* id is unknown and when the entry is already Paid, and in each case no
\* credit entry is modified.
C13_RejectedPaymentWritesNothing ==
    [][(/\ CallOf("record_credit_payment", 0)
        /\ \/ ret'.amount <= 0
           \/ ret'.credit_id \notin 1..Len(db.credit_sales)
           \/ db.credit_sales[ret'.credit_id].status = "Paid")
       => (~ret'.ok /\ db'.credit_sales = db.credit_sales)]_vars

\* A payment for an unknown credit id has just been refused while the
\* ledger holds an open entry and a Paid one.
C13_Witness ==
    /\ ret.op = "record_credit_payment" /\ ret.why = "NotFound"
    /\ \E k \in 1..Len(db.credit_sales) : db.credit_sales[k].status = "Paid"
    /\ \E k \in 1..Len(db.credit_sales) : db.credit_sales[k].status = "Unpaid"

(***************************************************************************)
(* Two sessions on one store (SpecRace).                                   *)
(***************************************************************************)
RECURSIVE SoldQuantity(_, _)
SoldQuantity(rows, item_no) ==
    IF rows = <<>> THEN 0
    ELSE (IF Head(rows).item_no = item_no THEN Head(rows).quantity_sold ELSE 0)
         + SoldQuantity(Tail(rows), item_no)

\* C9: when two sessions run process_sale on carts for the same product
\* with their steps interleaved, the committed sales never sell more than
\* the stock there was, and current_stock never becomes negative.
C9_NoOversellAcrossSessions ==
    \A i \in DOMAIN db.products :
        /\ SoldQuantity(db.sale_items, i) <= InitDb.products[i].current_stock
        /\ db.products[i].current_stock >= 0

(***************************************************************************)
(* Totals (SpecTotals), clear_cart and the frame of the cart calls         *)
(* (SpecCart).                                                             *)
(***************************************************************************)
\* The sum of the subtotals of the first n lines of a cart.
RECURSIVE LinesTotal(_, _)
LinesTotal(c, n) ==
    IF n = 0 THEN 0 ELSE LinesTotal(c, n - 1) + c[n].subtotal

\* C21: for every cart and every pair of inputs, calculate_cart_total
\* returns subtotal = the sum of the lines' subtotals, charges =
\* max(0, additional_charges), discount = max(0, discount_amount) and
\* grand_total = max(0, subtotal + charges - discount), and leaves the cart
\* as it was.
C21_TotalsFormula ==
    [][\A a, g \in TotalInputs :
           (CallOf("calculate_cart_total", 1) /\ calculate_cart_total(1, a, g))
           => LET t == ret'.totals
                  sub == LinesTotal(cart[1], Len(cart[1]))
              IN  /\ ret'.ok
                  /\ t.subtotal = sub
                  /\ t.charges = Max(0, a)
                  /\ t.discount = Max(0, g)
                  /\ t.grand_total = Max(0, sub + Max(0, a) - Max(0, g))
                  /\ cart' = cart]_vars

\* Totals were asked for a cart of two lines with a discount, and came back
\* with the subtotal of both lines.
C21_Witness ==
    /\ ret.op = "calculate_cart_total"
    /\ Len(cart[1]) = 2
    /\ ret.totals.subtotal = cart[1][1].subtotal + cart[1][2].subtotal
    /\ ret.totals.discount > 0
    /\ ret.totals.grand_total < ret.totals.subtotal

\* C22: clear_cart always succeeds and leaves the cart empty; on a cart
\* that is already empty it changes nothing, so clearing twice is the same
\* as clearing once.
C22_ClearCartEmpties ==
    [][CallOf("clear_cart", 1)
       => /\ ret'.ok
          /\ cart'[1] = <<>>
          /\ (cart[1] = <<>> => cart' = cart)
          /\ db' = db]_vars

\* clear_cart has just returned, after at least two earlier calls, and the
\* cart is empty.
C22_Witness ==
    /\ ret.op = "clear_cart" /\ ret.ok
    /\ cart[1] = <<>>
    /\ calls >= 3

\* C23: the cart calls add, remove, update-quantity, calculate_cart_total
\* and clear_cart never change a persisted table: products (current_stock
\* included), sales, sale_items, credit_sales and the stock-in log are after
\* the call what they were before it.
C23_CartCallsLeaveStoreAlone ==
    [][(/\ calls' = calls + 1
        /\ ret'.op \in {"add_item_to_cart", "remove_item_from_cart",
                        "update_cart_item_quantity", "calculate_cart_total",
                        "clear_cart"})
       => db' = db]_vars

\* Units were put in the cart and the product still has all its stock.
C23_Witness ==
    /\ ret.op = "add_item_to_cart" /\ ret.ok
    /\ cart[1] # <<>>
    /\ \A k \in 1..Len(cart[1]) :
           db.products[cart[1][k].item_no].current_stock = MaxStock
    /\ db = InitDb

(***************************************************************************)
(* Cash sales and the amount tendered (SpecInactive).                      *)
(***************************************************************************)
\* C24: POSManager.process_sale takes no tendered amount, so none covering
\* the total is ever supplied to it: a Cash call on a cart whose grand total
\* is greater than 0 is rejected and writes nothing.
C24_CashNeedsTender ==
    [][(/\ CallOf("process_sale", 1)
        /\ ret'.payment_type = "Cash"
        /\ CalculateCartTotal(cart[1], 0, 0).grand_total > 0)
       => (~ret'.ok /\ db' = db)]_vars

(***************************************************************************)
(* The reorder alert and the paths that write current_stock (Spec).        *)
(***************************************************************************)
\* C25: after every call that changes a product's stock (a committed
\* process_sale and log_stock_in included) the product's persisted
\* reorder_alert is 1 exactly when its current_stock is below the reorder
\* level; the flags start that way, so they are that way in every state.
C25_AlertFollowsStock ==
    \A i \in DOMAIN db.products :
        db.products[i].reorder_alert
            = (IF db.products[i].current_stock < reorder_default_level
               THEN 1 ELSE 0)

\* C26: every change of a product's current_stock is made by
\* InventoryManager.update_stock: a step that changes one is a step of
\* log_stock_in, the call whose stock write is update_stock, and leaves the
\* products as update_stock with the difference leaves them; process_sale
\* and update_product change no current_stock by statements of their own.
C26_StockWrittenOnlyByUpdateStock ==
    [][\A i \in DOMAIN db.products :
           (/\ i \in DOMAIN db'.products
            /\ db'.products[i].current_stock # db.products[i].current_stock)
           => /\ ret'.op = "log_stock_in"
              /\ db'.products
                     = UpdateStock(db, i,
                                   db'.products[i].current_stock
                                       - db.products[i].current_stock,
                                   FALSE).db.products]_vars

(***************************************************************************)
(* Committed sales are history (SpecHistory).                              *)
(***************************************************************************)
\* C27: once a sale is committed, no later call (price or stock edit,
\* stock-in, stock adjustment, further sale, credit entry or payment, cart
\* call) changes its row or its line items: every sales row and every
\* sale_items row of the state before a step is the same row, at the same
\* place, after it.
C27_CommittedSalesImmutable ==
    [][/\ Len(db'.sales) >= Len(db.sales)
       /\ \A k \in 1..Len(db.sales) : db'.sales[k] = db.sales[k]
       /\ Len(db'.sale_items) >= Len(db.sale_items)
       /\ \A k \in 1..Len(db.sale_items) :
              db'.sale_items[k] = db.sale_items[k]]_vars

\* A product was repriced after a sale of it, and the sale's line item
\* still carries the price it was sold at.
C27_Witness ==
    /\ ret.op = "update_product"
    /\ db.sales # <<>>
    /\ \E k \in 1..Len(db.sale_items) :
           /\ db.sale_items[k].sale_id = db.sales[1].sale_id
           /\ db.products[db.sale_items[k].item_no].selling_price
                  # db.sale_items[k].selling_price_at_sale

\* C28: add_credit_sale for a sale id that already has a credit entry fails
\* and leaves the ledger as it was, so there is never more than one credit
\* entry for a sale id.
C28_SecondEntryRefused ==
    [][\A n \in SaleIds, a \in 1..MaxAmount :
           (/\ CallOf("add_credit_sale", 0)
            /\ add_credit_sale(n, "Ana", a)
            /\ \E k \in 1..Len(db.credit_sales) : db.credit_sales[k].sale_id = n)
           => (~ret'.ok /\ db'.credit_sales = db.credit_sales)]_vars

\* C29: InventoryManager.update_stock for an item code that no product has
\* reports failure and changes no product.
C29_UnknownItemFails ==
    [][\A i \in HistoryItems, q \in Adjustments :
           (/\ CallOf("update_stock", 0)
            /\ update_stock(i, q)
            /\ GetProduct(db, i) = NoProduct)
           => (~ret'.ok /\ db'.products = db.products)]_vars

\* What a reader on a connection of its own finds whole: every sale row
\* has line items, every line item has its sale row, and each product's
\* stock is down by exactly the units of the line items.
ReaderSeesWholeSales(d) ==
    /\ \A n \in 1..Len(d.sales) :
           \E k \in 1..Len(d.sale_items) :
               d.sale_items[k].sale_id = d.sales[n].sale_id
    /\ \A k \in 1..Len(d.sale_items) :
           \E n \in 1..Len(d.sales) :
               d.sales[n].sale_id = d.sale_items[k].sale_id
    /\ \A i \in DOMAIN d.products :
           d.products[i].current_stock
               = InitDb.products[i].current_stock - SoldQuantity(d.sale_items, i)

\* C30: while a process_sale is in progress, the committed contents (what
\* a reader on another connection observes) show none of its sale row, its
\* line items and its stock decrements; its commit makes them all visible
\* in one step and its rollback none; so a reader never finds a sale
\* without its line items or a decrement without its sale.
C30_SaleVisibleAllAtOnce ==
    [][/\ lock' # 0 => SaleTablesUnchanged
       /\ (lock # 0 /\ lock' = 0 /\ ret'.ok)
              => /\ db'.sales = txn.sales
                 /\ db'.sale_items = txn.sale_items
                 /\ Len(db'.sales) = Len(db.sales) + 1
                 /\ \A i \in DOMAIN db.products :
                        db'.products[i].current_stock
                            = txn.products[i].current_stock
       /\ (lock # 0 /\ lock' = 0 /\ ~ret'.ok) => SaleTablesUnchanged
       /\ ReaderSeesWholeSales(db')]_vars

\* A sale is committed and visible, and another is in progress: its row,
\* line item and decrement are in the working contents only.
C30_Witness ==
    /\ lock # 0
    /\ pc[lock] = "finish"
    /\ db.sales # <<>>
    /\ Len(txn.sales) = Len(db.sales) + 1
    /\ Len(txn.sale_items) > Len(db.sale_items)
    /\ \E i \in DOMAIN db.products :
           txn.products[i].current_stock < db.products[i].current_stock

(***************************************************************************)
(* Stock-in (SpecStock).                                                   *)
(***************************************************************************)
\* C31: log_stock_in rejects a quantity <= 0 and an unknown item code and
\* then writes nothing; otherwise it succeeds, appends exactly one stock-in
\* log entry, for that item and quantity, and raises that product's
\* current_stock by exactly the quantity, touching no other table and no
\* other product; no call of it decreases a stock.
C31_StockInContract ==
    [][\A i \in ItemNos, q \in Quantities :
           (CallOf("log_stock_in", 0) /\ log_stock_in(i, q))
           => /\ IF q <= 0 \/ i \notin DOMAIN db.products
                 THEN ~ret'.ok /\ db' = db
                 ELSE /\ ret'.ok
                      /\ db'.stock_in_log
                             = Append(db.stock_in_log,
                                      [item_no |-> i, quantity_added |-> q])
                      /\ db'.products[i].current_stock
                             = db.products[i].current_stock + q
                      /\ \A j \in DOMAIN db.products \ {i} :
                             db'.products[j] = db.products[j]
                      /\ db'.sales = db.sales
                      /\ db'.sale_items = db.sale_items
                      /\ db'.credit_sales = db.credit_sales
              /\ DOMAIN db'.products = DOMAIN db.products
              /\ \A j \in DOMAIN db.products :
                     db'.products[j].current_stock
                         >= db.products[j].current_stock]_vars

\* A second delivery has just been logged, and the product holds more than
\* it started with.
C31_Witness ==
    /\ ret.op = "log_stock_in" /\ ret.ok
    /\ Len(db.stock_in_log) = 2
    /\ \E i \in DOMAIN db.products :
           db.products[i].current_stock > InitDb.products[i].current_stock

(***************************************************************************)
(* Adds that bring a line to nothing (SpecCart).                           *)
(***************************************************************************)
\* C32: an add_item_to_cart call whose resulting line quantity, the
\* quantity already in the cart for the item plus the requested quantity,
\* is <= 0 leaves the cart without a line for the item.
C32_AddToNothingRemovesLine ==
    [][\A i \in ItemNos, q \in Quantities :
           (/\ CallOf("add_item_to_cart", 1)
            /\ add_item_to_cart(1, i, q)
            /\ CartQuantity(cart[1], i) + q <= 0)
           => CartIndex(cart'[1], i) = 0]_vars

(***************************************************************************)
(* The monolithic variant (SpecMono).                                      *)
(***************************************************************************)
\* C33: in the monolithic variant, whatever add_item_to_cart and
\* process_sale calls are made on a selection that is not renewed, no
\* recorded sale leaves an inventory item's current_stock below 0.
C33_MonolithicStockNeverNegative ==
    \A i \in DOMAIN db.products :
        db.sales # <<>> => db.products[i].current_stock >= 0

\* C34: in the monolithic variant record_sale is all-or-nothing: when the
\* INSERT of a line item or a stock UPDATE of the call fails, the store is
\* afterwards as it was before the call, without the sale row, without any
\* of its line items and without any of its stock deductions.
C34_RecordSaleAllOrNothing ==
    [][\A p \in PaymentTypes, c \in Customers, f \in Retail1Faults :
           \A a \in Tendered(cart[1]) :
               (/\ CallOf("GroceryStoreApp.process_sale", 1)
                /\ GroceryStoreApp_process_sale(1, p, c, a, f)
                /\ ret'.why \in {"Processed", "SaleError"}
                /\ f \in 2..(1 + 2 * Len(cart[1])))
               => db' = db]_vars

(***************************************************************************)
(* Refused sales (SpecReject).                                             *)
(***************************************************************************)
\* C35: every process_sale call that returns failure (empty cart,
\* non-positive total of a non-credit sale, insufficient stock, missing
\* customer name, credit or storage error) leaves the cart exactly as it
\* was before the call.
C35_FailedSaleKeepsCart ==
    [][(CallOf("process_sale", 1) /\ ~ret'.ok) => cart' = cart]_vars

\* A sale has just failed in the write phase and the cart still holds two
\* lines.
C35_Witness ==
    /\ ret.op = "process_sale" /\ ~ret.ok
    /\ ret.why = "Exception"
    /\ Len(cart[1]) = 2

C38_ZeroTotalRefusedUnlessCredit ==
    [][(CallOf("process_sale", 1) /\ cart[1] # <<>>)
       => \A a, g \in Adjustments :
              (/\ CalculateCartTotal(cart[1], a, g).grand_total <= 0
               /\ process_sale(1, ret'.payment_type, ret'.customer_name,
                               a, g, 0))
              => IF ret'.payment_type # "Credit"
                 THEN /\ ~ret'.ok
                      /\ ret'.why = "NonPositiveTotal"
                      /\ db' = db
                      /\ cart' = cart
                 ELSE ret'.why # "NonPositiveTotal"]_vars

\* A Cash sale of a cart with a line has just been refused for its total.
C38_Witness ==
    /\ ret.op = "process_sale" /\ ret.payment_type = "Cash"
    /\ ret.why = "NonPositiveTotal"
    /\ cart[1] # <<>>
    /\ db.sales = <<>>

(***************************************************************************)
(* Payments only move an entry forward (SpecCredit).                       *)
(***************************************************************************)
\* The place of a status in the order Unpaid, Partially Paid, Paid.
StatusRank(status) ==
    CASE status = "Unpaid" -> 0
      [] status = "Partially Paid" -> 1
      [] status = "Paid" -> 2

\* C39: over the record_credit_payment calls on a credit entry,
\* amount_paid strictly increases with every successful call and changes
\* in no other step, balance never increases, and status only moves
\* forward in the order Unpaid, Partially Paid, Paid; a successful payment
\* never leaves the entry Unpaid.
C39_PaymentsOnlyMoveForward ==
    [][\A k \in 1..Len(db.credit_sales) :
           LET before == db.credit_sales[k]
               after == db'.credit_sales[k]
               paid == /\ CallOf("record_credit_payment", 0)
                       /\ ret'.credit_id = k
                       /\ ret'.ok
           IN  /\ k \in 1..Len(db'.credit_sales)
               /\ paid => /\ after.amount_paid > before.amount_paid
                          /\ after.status # "Unpaid"
               /\ ~paid => after.amount_paid = before.amount_paid
               /\ after.balance <= before.balance
               /\ StatusRank(after.status) >= StatusRank(before.status)]_vars

\* A second payment has just brought an entry from Partially Paid to Paid.
C39_Witness ==
    /\ ret.op = "record_credit_payment" /\ ret.ok
    /\ ret.credit_id \in 1..Len(db.credit_sales)
    /\ db.credit_sales[ret.credit_id].status = "Paid"
    /\ db.credit_sales[ret.credit_id].amount_paid > ret.amount

(***************************************************************************)
(* Stock conservation (SpecStockRace).                                     *)
(***************************************************************************)
RECURSIVE StockedIn(_, _)
StockedIn(rows, item_no) ==
    IF rows = <<>> THEN 0
    ELSE (IF Head(rows).item_no = item_no THEN Head(rows).quantity_added ELSE 0)
         + StockedIn(Tail(rows), item_no)

\* C36: without product edits and deletes, whenever no log_stock_in call is
\* between its two writes, each product's current_stock is its initial
\* stock plus the quantity_added of its stock-in log entries minus the
\* quantity_sold of its committed sale line items, also after a call whose
\* stock update failed once the log entry was written.
C36_StockConservation ==
    (\A s \in Sessions : pc[s] # "stock_update")
    => \A i \in DOMAIN db.products :
           db.products[i].current_stock
               = InitDb.products[i].current_stock
                 + StockedIn(db.stock_in_log, i)
                 - SoldQuantity(db.sale_items, i)

====
